---- MODULE Spec2Model ----
(***************************************************************************)
(* A model of js/imageHandler.js: class ImageHandler (validateImage,       *)
(* processImages, createPreview, convertToDataUrl, uploadImage,            *)
(* uploadImages) and the host it runs on (FileReader completions, timers). *)
(*                                                                         *)
(* An asynchronous call of the handler is a "call" c: its local variables  *)
(* are the components at c of the per-call variables below.  The host is   *)
(* single threaded: every action is one run-to-completion job of the event *)
(* loop, from one suspension point (await) of a call to its next.          *)
(***************************************************************************)
EXTENDS Integers, Sequences, FiniteSets, TLC

\* ------------------------------------------------------------------ bounds

\* The longest batch handed to processImages / uploadImages.
MaxFiles == 25

\* Host jobs unrelated to the handler that may run while a call is suspended.
MaxHostTasks == 1

\* The longest batch of the specifications in which the host changes the
\* policy while calls are in progress.
MaxSmallFiles == 3

\* The signals (load, error) a misbehaving FileReader delivers for one read.
MaxSignals == 3

\* ------------------------------------------------------- program constants

\* constructor: this.maxFileSize = 5 * 1024 * 1024
DefaultMaxFileSize == 5 * 1024 * 1024

\* constructor: this.allowedTypes
DefaultAllowedTypes ==
    <<"image/jpeg", "image/jpg", "image/png", "image/gif", "image/webp">>

\* processImages: if (i % 10 === 9)
YieldEvery == 10

\* processImages: setTimeout(resolve, 0)
YieldDelay == 0

\* uploadImage: setTimeout(resolve, 500)
UploadDelay == 500

\* One mebibyte, the divisor of (size / 1024 / 1024).
MiB == 1024 * 1024

\* ---------------------------------------------------------------- state

VARIABLES
    maxFileSize,      \* this.maxFileSize of the shared handler
    allowedTypes,     \* this.allowedTypes of the shared handler
    call,             \* per call: the locals of one asynchronous method call
    readers,          \* FileReaders with a read in flight
    timers,           \* timers scheduled and not yet fired
    validation,       \* the last direct validateImage call: its input and result
    hostTasks         \* unrelated host jobs run so far

vars == <<maxFileSize, allowedTypes, call, readers, timers, validation,
          hostTasks>>

policy == <<maxFileSize, allowedTypes>>

\* The calls of the handler that can be in progress.
Calls == {1, 2}

\* The locals of a call before it is made.  op: the method called; pc: the
\* await the call is suspended at; status: the state of the promise the call
\* returned and `returned` what it settled with; files, i, processedImages,
\* results: the method's variables (for uploadImage, files is <<file>>);
\* console: console.warn / console.error lines.  History, not program state:
\* started / completed (indices whose work has started / completed), reads
\* (indices a read was started for), yields (indices the loop yielded after);
\* for a direct call of createPreview, signals (the load / error events its
\* reader delivered) and settlements (the times its promise changed state).
NoCall ==
    [op |-> "none", pc |-> "idle", status |-> "none", files |-> <<>>,
     i |-> 0, processedImages |-> <<>>, results |-> <<>>, returned |-> <<>>,
     console |-> <<>>, started |-> <<>>, completed |-> <<>>, reads |-> <<>>,
     yields |-> <<>>, signals |-> <<>>, settlements |-> <<>>]

\* ------------------------------------------------------------ file inputs

\* A File: name, size, type and its byte source.  `readable` is whether a
\* FileReader succeeds on the byte source; `bytes` stands for its content.
File(name, size, type, readable) ==
    [name |-> name, size |-> size, type |-> type, readable |-> readable,
     bytes |-> name]

Includes(seq, x) == \E k \in 1..Len(seq) : seq[k] = x

\* ------------------------------------------------------------ validateImage

\* Number.prototype.toFixed(2) of (bytes / 1024 / 1024): the value in
\* hundredths, the nearest one, the larger when two are equally near.
ToFixed2(bytes) == (200 * bytes + MiB) \div (2 * MiB)

TypeError(file, types) == <<"Invalid file type", file.type, types>>

SizeError(file, max) == <<"File too large", ToFixed2(file.size), ToFixed2(max)>>

TypeCheckFails(file, types) == ~Includes(types, file.type)

\* The size check with >= for >.
SizeCheckFailsAtMax(file, max) == file.size >= max

SizeCheckFails(file, max) == file.size > max

\* validateImage with `else if` for the second `if`: the size of a file of a
\* wrong type is not checked.
validateWithElseIf(file, max, types) ==
    IF TypeCheckFails(file, types)
    THEN [valid |-> FALSE, errors |-> <<TypeError(file, types)>>]
    ELSE IF SizeCheckFails(file, max)
    THEN [valid |-> FALSE, errors |-> <<SizeError(file, max)>>]
    ELSE [valid |-> TRUE, errors |-> <<>>]

\* validateImage under a policy (max, types).
validateWith(file, max, types) ==
    LET r0 == [valid |-> TRUE, errors |-> <<>>]
        r1 == IF TypeCheckFails(file, types)
              THEN [valid |-> FALSE,
                    errors |-> Append(r0.errors, TypeError(file, types))]
              ELSE r0
        r2 == IF SizeCheckFails(file, max)
              THEN [valid |-> FALSE,
                    errors |-> Append(r1.errors, SizeError(file, max))]
              ELSE r1
    IN  r2

validateImage(file) == validateWith(file, maxFileSize, allowedTypes)

\* ------------------------------------------------- createPreview and friends

\* reader.readAsDataURL(file): data:<mime>;base64,<payload>
DataUrl(file) == <<"data:", file.type, ";base64,", file.bytes>>

\* The object pushed by processImages.
ProcessedImage(file, previewUrl) ==
    [file |-> file, previewUrl |-> previewUrl, name |-> file.name,
     size |-> file.size, type |-> file.type]

\* The object uploadImage returns.
UploadSuccess(file, dataUrl) ==
    [success |-> TRUE, url |-> dataUrl, filename |-> file.name,
     size |-> file.size]

\* The object uploadImages pushes in its catch block.
UploadFailure(file, message) ==
    [success |-> FALSE, error |-> message, filename |-> file.name]

PreviewErrorMessage == "Failed to create preview"

ConvertErrorMessage == "Failed to convert file"

\* ------------------------------------------------------------ the event loop

\* One job of the event loop run on behalf of call c: the locals of c as the
\* job has left them so far, and the readers and timers of the host.
Job(c) == [id |-> c, call |-> call[c], readers |-> readers, timers |-> timers]

\* Commit where the accumulators are fields of the shared handler
\* (this.processedImages, this.results): what one call writes, every call sees.
CommitShared(J) ==
    /\ call' = [c \in Calls |->
                   IF c = J.id THEN J.call
                   ELSE [call[c] EXCEPT
                            !.processedImages = J.call.processedImages,
                            !.results = J.call.results]]
    /\ readers' = J.readers
    /\ timers' = J.timers

\* The job ends (the call awaits, or its promise settles): its effects.
Commit(J) ==
    /\ call' = [call EXCEPT ![J.id] = J.call]
    /\ readers' = J.readers
    /\ timers' = J.timers

\* The file the loop of the job's call is at: files[i].
CurrentFile(J) == J.call.files[J.call.i + 1]

\* new FileReader(); reader.readAsDataURL(file): a read in flight, for the
\* file at the call's index, whose promise the call then awaits at `at`.
StartRead(J, at) ==
    [J EXCEPT !.readers = @ \cup {[call |-> J.id, index |-> J.call.i]},
              !.call.pc = at,
              !.call.reads = Append(@, J.call.i)]

\* await new Promise(resolve => setTimeout(resolve, ms)), awaited at `at`.
StartTimer(J, ms, at) ==
    [J EXCEPT !.timers = @ \cup {[call |-> J.id, index |-> J.call.i, ms |-> ms]},
              !.call.pc = at]

\* createPreview(file), awaited by processImages.
createPreview(J) == StartRead(J, "createPreview")

\* convertToDataUrl(file), awaited by uploadImage.
convertToDataUrl(J) == StartRead(J, "convertToDataUrl")

\* The async function returns / throws: its promise settles.
Fulfil(J, value) ==
    [J EXCEPT !.call.pc = "done", !.call.status = "fulfilled",
              !.call.returned = value]

Reject(J, error) ==
    [J EXCEPT !.call.pc = "done", !.call.status = "rejected",
              !.call.returned = error]

\* A promise whose resolve / reject settle it whenever they are called, like a
\* plain callback.
previewResolveAgain(J, value) ==
    [Fulfil(J, value) EXCEPT !.call.settlements = Append(@, "fulfilled")]

\* createPreview: resolve(e.target.result), the resolve function of the
\* promise it returned: it settles the promise if it is pending and does
\* nothing otherwise.
previewResolve(J, value) ==
    IF J.call.status = "pending"
    THEN [Fulfil(J, value) EXCEPT !.call.settlements = Append(@, "fulfilled")]
    ELSE J

\* createPreview: reject(new Error('Failed to create preview')), likewise.
previewReject(J, error) ==
    IF J.call.status = "pending"
    THEN [Reject(J, error) EXCEPT !.call.settlements = Append(@, "rejected")]
    ELSE J

\* ------------------------------------------------------------ processImages

RECURSIVE processLoop(_)

\* processYield that awaits a promise nothing resolves: no timer is set.
processYieldNoTimer(J) ==
    LET done == [J EXCEPT !.call.completed = Append(@, J.call.i)]
    IN  IF J.call.i % YieldEvery = YieldEvery - 1
        THEN [done EXCEPT !.call.yields = Append(@, J.call.i),
                          !.call.pc = "yield"]
        ELSE processLoop([done EXCEPT !.call.i = @ + 1])

\* if (i % 10 === 9) await new Promise(resolve => setTimeout(resolve, 0));
\* otherwise i++ and the loop goes on in the same job.
processYield(J) ==
    LET done == [J EXCEPT !.call.completed = Append(@, J.call.i)]
    IN  IF J.call.i % YieldEvery = YieldEvery - 1
        THEN StartTimer([done EXCEPT !.call.yields = Append(@, J.call.i)],
                        YieldDelay, "yield")
        ELSE processLoop([done EXCEPT !.call.i = @ + 1])

\* processLoop whose else branch ends the iteration with `continue`, so an
\* invalid file skips the periodic yield.
processLoopContinue(J) ==
    IF ~(J.call.i < Len(J.call.files))
    THEN Fulfil(J, J.call.processedImages)
    ELSE LET file == CurrentFile(J)
             v == validateImage(file)
             S == [J EXCEPT !.call.started = Append(@, J.call.i)]
         IN  IF v.valid
             THEN createPreview(S)
             ELSE processLoop(
                      [S EXCEPT !.call.console =
                                    Append(@, <<"warn", file.name, v.errors>>),
                                !.call.completed = Append(@, J.call.i),
                                !.call.i = @ + 1])

\* processLoop that does not await createPreview: the read is started and the
\* iteration goes on.
processLoopNoAwait(J) ==
    IF ~(J.call.i < Len(J.call.files))
    THEN Fulfil(J, J.call.processedImages)
    ELSE LET file == CurrentFile(J)
             v == validateImage(file)
             S == [J EXCEPT !.call.started = Append(@, J.call.i)]
         IN  IF v.valid
             THEN processYield(createPreview(S))
             ELSE processYield(
                      [S EXCEPT !.call.console =
                           Append(@, <<"warn", file.name, v.errors>>)])

\* processLoop with the test of validation.valid left out: every file is
\* previewed.
processLoopUnchecked(J) ==
    IF ~(J.call.i < Len(J.call.files))
    THEN Fulfil(J, J.call.processedImages)
    ELSE createPreview([J EXCEPT !.call.started = Append(@, J.call.i)])

\* for (let i = 0; i < files.length; i++) { ... } return processedImages;
\* from the loop test, up to the next await or the return.
processLoop(J) ==
    IF ~(J.call.i < Len(J.call.files))
    THEN Fulfil(J, J.call.processedImages)
    ELSE LET file == CurrentFile(J)
             v == validateImage(file)
             S == [J EXCEPT !.call.started = Append(@, J.call.i)]
         IN  IF v.valid
             THEN createPreview(S)
             ELSE processYield(
                      [S EXCEPT !.call.console =
                           Append(@, <<"warn", file.name, v.errors>>)])

\* const previewUrl = await this.createPreview(file) resumes with the URL:
\* processedImages.push({...}), then the rest of the iteration.
processPush(J, previewUrl) ==
    processYield([J EXCEPT !.call.processedImages =
                      Append(@, ProcessedImage(CurrentFile(J), previewUrl))])

\* processCatch that pushes a record without a preview for the failed file.
processCatchKeep(J, error) ==
    processPush([J EXCEPT !.call.console =
                     Append(@, <<"error", CurrentFile(J).name, error>>)],
                <<>>)

\* processCatch without the try block: the rejection leaves processImages.
processCatchRethrow(J, error) == Reject(J, error)

\* processCatch that tries the same file again.
processCatchRetry(J, error) ==
    processLoop([J EXCEPT !.call.console =
                     Append(@, <<"error", CurrentFile(J).name, error>>)])

\* catch (error) { console.error(...) }, then the rest of the iteration.
processCatch(J, error) ==
    processYield([J EXCEPT !.call.console =
                      Append(@, <<"error", CurrentFile(J).name, error>>)])

\* processResume that loses the file after the yield.
processResumeSkip(J) == processLoop([J EXCEPT !.call.i = @ + 2])

\* The yield timer fired: i++ and the loop goes on.
processResume(J) == processLoop([J EXCEPT !.call.i = @ + 1])

RECURSIVE processNoYield(_, _, _)
\* The loop of processImages with the periodic yield removed: the value it
\* returns for the files from index k on, given the accumulator so far.  A
\* record is pushed when the file is valid and createPreview resolves.
processNoYield(fs, k, acc) ==
    IF ~(k < Len(fs))
    THEN acc
    ELSE LET file == fs[k + 1]
         IN  processNoYield(fs, k + 1,
                 IF validateImage(file).valid /\ file.readable
                 THEN Append(acc, ProcessedImage(file, DataUrl(file)))
                 ELSE acc)

\* ------------------------------------------------- uploadImage, uploadImages

\* uploadImage(file) up to its first await: the simulated network delay.
uploadImage(J) ==
    StartTimer([J EXCEPT !.call.started = Append(@, J.call.i)],
               UploadDelay, "delay")

\* for (const file of files) { ... } return results;
uploadLoop(J) ==
    IF ~(J.call.i < Len(J.call.files))
    THEN Fulfil(J, J.call.results)
    ELSE uploadImage(J)

\* The next iteration of the for-of loop.
uploadNext(J) ==
    uploadLoop([J EXCEPT !.call.completed = Append(@, J.call.i),
                         !.call.i = @ + 1])

\* uploadImage returned `result` to its caller: the host (the call was of
\* uploadImage itself) or uploadImages: results.push(result).
uploadReturn(J, result) ==
    IF J.call.op = "uploadImage"
    THEN Fulfil([J EXCEPT !.call.completed = Append(@, J.call.i)], result)
    ELSE uploadNext([J EXCEPT !.call.results = Append(@, result)])

\* uploadThrow whose catch block pushes nothing.
uploadThrowSkip(J, message) ==
    IF J.call.op = "uploadImage"
    THEN Reject([J EXCEPT !.call.completed = Append(@, J.call.i)], message)
    ELSE uploadNext(J)

\* uploadThrow without the try block: the first failure ends the batch.
uploadThrowAbort(J, message) ==
    Reject([J EXCEPT !.call.completed = Append(@, J.call.i)], message)

\* uploadThrow where uploadImage itself catches the failed read and returns
\* the Failure variant.
uploadThrowConvert(J, message) ==
    IF J.call.op = "uploadImage"
    THEN Fulfil([J EXCEPT !.call.completed = Append(@, J.call.i)],
                UploadFailure(CurrentFile(J), message))
    ELSE uploadNext([J EXCEPT !.call.results =
                         Append(@, UploadFailure(CurrentFile(J), message))])

\* uploadImage threw `message` to its caller: the host, or the catch block
\* of uploadImages: results.push({success: false, ...}).
uploadThrow(J, message) ==
    IF J.call.op = "uploadImage"
    THEN Reject([J EXCEPT !.call.completed = Append(@, J.call.i)], message)
    ELSE uploadNext([J EXCEPT !.call.results =
                         Append(@, UploadFailure(CurrentFile(J), message))])

\* uploadImages run on its own: one entry per file, in order, the Success of
\* uploadImage or the Failure of the catch block.
uploadAlone(fs) ==
    [k \in 1..Len(fs) |->
        IF fs[k].readable
        THEN UploadSuccess(fs[k], DataUrl(fs[k]))
        ELSE UploadFailure(fs[k], ConvertErrorMessage)]

\* ---------------------------------------------------------------- inputs

\* A type no policy here allows.
OtherType == "text/plain"

\* The file at index j of an input batch.  Sizes alternate between exactly
\* the default maximum and 1 KiB, types run through the default list; an
\* invalid file has a type that is not allowed (j % 3 = 0), a size one byte
\* above the maximum (j % 3 = 1) or both (j % 3 = 2).
BatchFile(j, invalid, unreadable) ==
    File(j,
         IF invalid /\ j % 3 # 0 THEN DefaultMaxFileSize + 1
         ELSE IF j % 2 = 0 THEN DefaultMaxFileSize ELSE 1024,
         IF invalid /\ j % 3 # 1 THEN OtherType
         ELSE DefaultAllowedTypes[(j % Len(DefaultAllowedTypes)) + 1],
         ~unreadable)

\* The batch of n files whose p-th file is invalid and whose q-th file cannot
\* be read (p = 0, q = 0: none).
Batch(n, p, q) == [k \in 1..n |-> BatchFile(k - 1, k = p, k = q)]

Batches ==
    UNION {{Batch(n, p, q) : p \in 0..n, q \in 0..n} : n \in 0..MaxFiles}

\* The batches handed to uploadImages, which never looks at validity: the
\* invalid file, if any, is the first or the last.
UploadBatches ==
    UNION {{Batch(n, p, q) : p \in {0, 1, n}, q \in 0..n} : n \in 0..MaxFiles}

\* The batches of the fair specification: of every length, the invalid file
\* and the unreadable file, if any, first in the batch or right before a yield.
FairBatches ==
    UNION {{Batch(n, p, q) : p \in {0, 1, 10} \cap 0..n,
                             q \in {0, 1, 20} \cap 0..n} : n \in 0..MaxFiles}

\* The batches of the specifications in which the host changes the policy.
SmallBatches ==
    UNION {{Batch(n, p, q) : p \in 0..n, q \in 0..n} : n \in 0..MaxSmallFiles}

\* The batches call c is given when two calls run at once: Batch(n, p, q) with
\* the files named after the call, so that the files of the two calls differ.
PairBatch(c, n, p, q) ==
    [k \in 1..n |->
        [BatchFile(k - 1, k = p, k = q) EXCEPT !.name = <<c, k - 1>>,
                                               !.bytes = <<c, k - 1>>]]

\* Two files, or enough for one periodic yield.
PairBatches(c) ==
    {PairBatch(c, n, p, q) : n \in {2, YieldEvery + 1}, p \in {0, 1}, q \in {0, 2}}

\* The files handed to uploadImage directly.
SingleFiles == {BatchFile(j, inv, unr) : j \in 0..2, inv \in BOOLEAN, unr \in BOOLEAN}

\* --------------------------------------------------------------- actions

Init ==
    /\ maxFileSize = DefaultMaxFileSize
    /\ allowedTypes = DefaultAllowedTypes
    /\ call = [c \in Calls |-> NoCall]
    /\ readers = {}
    /\ timers = {}
    /\ validation = <<>>
    /\ hostTasks = 0

\* The locals of a call of method m on `fs` as it begins.
Begin(c, m, fs) ==
    [Job(c) EXCEPT !.call = [NoCall EXCEPT !.op = m, !.pc = "running",
                                           !.status = "pending", !.files = fs]]

\* imageHandler.processImages(files), for a batch among `batches`: runs up to
\* its first await.
processImages(c, batches) ==
    /\ call[c].pc = "idle"
    /\ \E fs \in batches : Commit(processLoop(Begin(c, "processImages", fs)))
    /\ UNCHANGED <<policy, validation, hostTasks>>

\* imageHandler.uploadImages(files), for a batch among `batches`: runs up to
\* its first await.
uploadImages(c, batches) ==
    /\ call[c].pc = "idle"
    /\ \E fs \in batches : Commit(uploadLoop(Begin(c, "uploadImages", fs)))
    /\ UNCHANGED <<policy, validation, hostTasks>>

CallProcessImages(c) == processImages(c, Batches)

CallUploadImages(c) == uploadImages(c, UploadBatches)

\* The same calls for the batches of the fair specification.
CallProcessImagesFair(c) == processImages(c, FairBatches)

CallUploadImagesFair(c) == uploadImages(c, FairBatches)

\* imageHandler.uploadImage(file), called directly.
CallUploadImage(c) ==
    /\ call[c].pc = "idle"
    /\ \E f \in SingleFiles : Commit(uploadImage(Begin(c, "uploadImage", <<f>>)))
    /\ UNCHANGED <<policy, validation, hostTasks>>

\* The job a reader's completion starts, with the reader gone.
ReaderJob(r) == [Job(r.call) EXCEPT !.readers = @ \ {r}]

\* The job a timer starts as it fires, with the timer gone.
TimerJob(t) == [Job(t.call) EXCEPT !.timers = @ \ {t}]

\* The file a reader reads.
ReaderFile(r) == call[r.call].files[r.index + 1]

\* createPreview: reader.onload = (e) => resolve(e.target.result)
PreviewLoad(c) ==
    /\ call[c].pc = "createPreview"
    /\ \E r \in readers :
          /\ r.call = c
          /\ ReaderFile(r).readable
          /\ Commit(processPush(ReaderJob(r), DataUrl(ReaderFile(r))))
    /\ UNCHANGED <<policy, validation, hostTasks>>

\* createPreview: reader.onerror = (e) => reject(new Error(...))
PreviewError(c) ==
    /\ call[c].pc = "createPreview"
    /\ \E r \in readers :
          /\ r.call = c
          /\ ~ReaderFile(r).readable
          /\ Commit(processCatch(ReaderJob(r), PreviewErrorMessage))
    /\ UNCHANGED <<policy, validation, hostTasks>>

\* processImages: the timer of the periodic yield fires.
YieldTimer(c) ==
    /\ call[c].pc = "yield"
    /\ \E t \in timers :
          /\ t.call = c
          /\ Commit(processResume(TimerJob(t)))
    /\ UNCHANGED <<policy, validation, hostTasks>>

\* uploadImage: the delay timer fires; const dataUrl = await
\* this.convertToDataUrl(file).
DelayTimer(c) ==
    /\ call[c].pc = "delay"
    /\ \E t \in timers :
          /\ t.call = c
          /\ Commit(convertToDataUrl(TimerJob(t)))
    /\ UNCHANGED <<policy, validation, hostTasks>>

\* ConvertLoad where uploadImage validates the file it has read and throws if
\* the policy rejects it.
ConvertLoadChecked(c) ==
    /\ call[c].pc = "convertToDataUrl"
    /\ \E r \in readers :
          /\ r.call = c
          /\ ReaderFile(r).readable
          /\ IF validateImage(ReaderFile(r)).valid
             THEN Commit(uploadReturn(ReaderJob(r),
                      UploadSuccess(ReaderFile(r), DataUrl(ReaderFile(r)))))
             ELSE Commit(uploadThrow(ReaderJob(r), "Invalid file"))
    /\ UNCHANGED <<policy, validation, hostTasks>>

\* convertToDataUrl: reader.onload; uploadImage returns its result.
ConvertLoad(c) ==
    /\ call[c].pc = "convertToDataUrl"
    /\ \E r \in readers :
          /\ r.call = c
          /\ ReaderFile(r).readable
          /\ Commit(uploadReturn(ReaderJob(r),
                                 UploadSuccess(ReaderFile(r), DataUrl(ReaderFile(r)))))
    /\ UNCHANGED <<policy, validation, hostTasks>>

\* convertToDataUrl: reader.onerror; uploadImage throws.
ConvertError(c) ==
    /\ call[c].pc = "convertToDataUrl"
    /\ \E r \in readers :
          /\ r.call = c
          /\ ~ReaderFile(r).readable
          /\ Commit(uploadThrow(ReaderJob(r), ConvertErrorMessage))
    /\ UNCHANGED <<policy, validation, hostTasks>>

\* imageHandler.createPreview(file), called directly: the read starts and the
\* promise is returned.
CallCreatePreview(c) ==
    /\ call[c].pc = "idle"
    /\ \E f \in SingleFiles :
          Commit(createPreview(Begin(c, "createPreview", <<f>>)))
    /\ UNCHANGED <<policy, validation, hostTasks>>

\* The job of a signal of the reader of a direct call of createPreview.  The
\* reader stays: it may signal again, whatever it signalled before.
SignalJob(c, event) == [Job(c) EXCEPT !.call.signals = Append(@, event)]

\* The reader of a direct call of createPreview signals load:
\* reader.onload = (e) => resolve(e.target.result)
ReaderSignalsLoad(c) ==
    /\ call[c].op = "createPreview"
    /\ Len(call[c].signals) < MaxSignals
    /\ \E r \in readers :
          /\ r.call = c
          /\ Commit(previewResolve(SignalJob(c, "load"), DataUrl(ReaderFile(r))))
    /\ UNCHANGED <<policy, validation, hostTasks>>

\* The reader of a direct call of createPreview signals error:
\* reader.onerror = (e) => reject(new Error('Failed to create preview'))
ReaderSignalsError(c) ==
    /\ call[c].op = "createPreview"
    /\ Len(call[c].signals) < MaxSignals
    /\ \E r \in readers :
          /\ r.call = c
          /\ Commit(previewReject(SignalJob(c, "error"), PreviewErrorMessage))
    /\ UNCHANGED <<policy, validation, hostTasks>>

\* A job of the host that has nothing to do with the handler runs while some
\* call is suspended.
HostTask ==
    /\ hostTasks < MaxHostTasks
    /\ \E c \in Calls : call[c].status = "pending"
    /\ hostTasks' = hostTasks + 1
    /\ UNCHANGED <<policy, call, readers, timers, validation>>

\* The policies a host sets on the handler and the files it has validated.
ProbeMaxFileSizes == {0, 1024, DefaultMaxFileSize}

ProbeAllowedTypes ==
    {DefaultAllowedTypes, <<>>, <<"image/png">>, <<OtherType, "image/png">>}

ProbeFiles ==
    {File(0, size, type, TRUE) :
        size \in {0, 1023, 1024, 1025, DefaultMaxFileSize - 1,
                  DefaultMaxFileSize, DefaultMaxFileSize + 1},
        type \in {DefaultAllowedTypes[k] : k \in 1..Len(DefaultAllowedTypes)}
                 \cup {OtherType, ""}}

\* The host assigns the public fields of the handler.
SetPolicy ==
    /\ maxFileSize' \in ProbeMaxFileSizes
    /\ allowedTypes' \in ProbeAllowedTypes
    /\ UNCHANGED <<call, readers, timers, validation, hostTasks>>

\* imageHandler.validateImage(file), called directly: the call and its result.
ValidateImage ==
    /\ \E f \in ProbeFiles :
          validation' = <<[file |-> f, maxFileSize |-> maxFileSize,
                           allowedTypes |-> allowedTypes,
                           result |-> validateImage(f)]>>
    /\ UNCHANGED <<policy, call, readers, timers, hostTasks>>

\* The files validated twice, and the batches processed meanwhile.
FrameFiles ==
    {File(0, size, type, TRUE) :
        size \in {1024, DefaultMaxFileSize + 1}, type \in {"image/png", OtherType}}

FrameBatches == {Batch(1, p, q) : p \in 0..1, q \in 0..1}

\* What a direct call validateImage(f) is recorded as: its argument, the
\* policy it ran under and the object it returned.
ValidationOf(f) ==
    [file |-> f, maxFileSize |-> maxFileSize, allowedTypes |-> allowedTypes,
     result |-> validateImage(f)]

\* imageHandler.validateImage(file), a first call.
ValidateOnce ==
    /\ \E f \in FrameFiles : validation' = <<ValidationOf(f)>>
    /\ UNCHANGED <<policy, call, readers, timers, hostTasks>>

\* ValidateAgain where `result` is one object of the handler, reset by no
\* call: the errors pile up, and the object returned before changes too.
ValidateAgainShared ==
    /\ Len(validation) >= 1
    /\ LET f == validation[1].file
           piled == [valid |-> validation[1].result.valid /\ validateImage(f).valid,
                     errors |-> validation[1].result.errors \o validateImage(f).errors]
       IN  validation' = <<[ValidationOf(f) EXCEPT !.result = piled],
                           [validation[1] EXCEPT !.result = piled]>>
    /\ UNCHANGED <<policy, call, readers, timers, hostTasks>>

\* imageHandler.validateImage(file) again, for the file of the last call:
\* the last two calls are kept, the latest first.
ValidateAgain ==
    /\ Len(validation) >= 1
    /\ validation' = <<ValidationOf(validation[1].file), validation[1]>>
    /\ UNCHANGED <<policy, call, readers, timers, hostTasks>>

Next ==
    \/ CallProcessImages(1)
    \/ CallUploadImages(1)
    \/ CallUploadImage(1)
    \/ PreviewLoad(1)
    \/ PreviewError(1)
    \/ YieldTimer(1)
    \/ DelayTimer(1)
    \/ ConvertLoad(1)
    \/ ConvertError(1)
    \/ HostTask

Spec == Init /\ [][Next]_vars

\* What the host schedules: completions of reads in flight and timers.
Completion ==
    \/ PreviewLoad(1)
    \/ PreviewError(1)
    \/ YieldTimer(1)
    \/ DelayTimer(1)
    \/ ConvertLoad(1)
    \/ ConvertError(1)

\* Every read in flight eventually signals load or error and every timer
\* eventually fires.
FairNext ==
    \/ CallProcessImagesFair(1)
    \/ CallUploadImagesFair(1)
    \/ Completion
    \/ HostTask

FairSpec == Init /\ [][FairNext]_vars /\ WF_vars(Completion)

\* Uploads while the host changes the policy.
CallUploadImagesSmall(c) == uploadImages(c, SmallBatches)

PolicyNext ==
    \/ SetPolicy
    \/ CallUploadImagesSmall(1)
    \/ CallUploadImage(1)
    \/ DelayTimer(1)
    \/ ConvertLoad(1)
    \/ ConvertError(1)

PolicySpec == Init /\ [][PolicyNext]_vars

\* Direct calls of createPreview whose reader may signal load and error in any
\* order and number.
PreviewNext ==
    \/ CallCreatePreview(1)
    \/ ReaderSignalsLoad(1)
    \/ ReaderSignalsError(1)

PreviewSpec == Init /\ [][PreviewNext]_vars

\* Two calls of the shared handler at once: their jobs interleave at every
\* await (reads, the periodic yield, the upload delay).
PairStep(c) ==
    \/ processImages(c, PairBatches(c))
    \/ uploadImages(c, PairBatches(c))
    \/ PreviewLoad(c)
    \/ PreviewError(c)
    \/ YieldTimer(c)
    \/ DelayTimer(c)
    \/ ConvertLoad(c)
    \/ ConvertError(c)

PairNext == \E c \in Calls : PairStep(c)

PairSpec == Init /\ [][PairNext]_vars

\* Repeated calls of validateImage and small batches, while the host changes
\* the policy.
FrameNext ==
    \/ SetPolicy
    \/ ValidateOnce
    \/ ValidateAgain
    \/ processImages(1, FrameBatches)
    \/ uploadImages(1, FrameBatches)
    \/ PreviewLoad(1)
    \/ PreviewError(1)
    \/ DelayTimer(1)
    \/ ConvertLoad(1)
    \/ ConvertError(1)

FrameSpec == Init /\ [][FrameNext]_vars

\* Direct calls of validateImage under the policies a host sets.
NextValidate == SetPolicy \/ ValidateImage

SpecValidate == Init /\ [][NextValidate]_vars

\* ------------------------------------------------------------ properties

\* The calls of a method.
CallsOf(m) == {c \in Calls : call[c].op = m}

\* A call has returned normally.
Returned(c) == call[c].pc = "done" /\ call[c].status = "fulfilled"

RECURSIVE IsSubsequence(_, _)
\* a is b with some of its elements left out.
IsSubsequence(a, b) ==
    IF Len(a) = 0 THEN TRUE
    ELSE IF Len(b) = 0 THEN FALSE
    ELSE IF Head(a) = Head(b) THEN IsSubsequence(Tail(a), Tail(b))
    ELSE IsSubsequence(a, Tail(b))

\* The files the records of an accumulator were built from.
SourceFiles(acc) == [m \in 1..Len(acc) |-> acc[m].file]

NoDuplicates(seq) == \A m, k \in 1..Len(seq) : seq[m] = seq[k] => m = k

\* The positions (1-based) of the batch a call of processImages keeps: the
\* files that pass validation and whose read succeeds.
Kept(fs) == {k \in 1..Len(fs) : validateImage(fs[k]).valid /\ fs[k].readable}

\* C1: at every state of a call of processImages the accumulator (and so the
\* value returned) is an order-preserving subsequence of the input, without
\* duplicates, no longer than the input, and each of its records was built
\* from a file that validateImage accepts.
C1_SubsequenceOfValid ==
    \A c \in CallsOf("processImages") :
        LET acc == call[c].processedImages
            fs == call[c].files
        IN  /\ Len(acc) <= Len(fs)
            /\ IsSubsequence(SourceFiles(acc), fs)
            /\ NoDuplicates(SourceFiles(acc))
            /\ \A m \in 1..Len(acc) : validateImage(acc[m].file).valid
            /\ Returned(c) => call[c].returned = acc

\* A call of processImages returned some, not all, of a batch that held an
\* invalid file.
C1_Witness ==
    /\ call[1].op = "processImages" /\ Returned(1)
    /\ Len(call[1].returned) = 3 /\ Len(call[1].files) = 5
    /\ \E k \in 1..5 : ~validateImage(call[1].files[k]).valid

\* C2: processImages returns exactly the files that pass validation and whose
\* read succeeds, in input order: the m-th kept position of the input is the
\* m-th record of the result, built from that file and its data URL.  For the
\* batch of 25 whose 3rd file is invalid and whose 7th cannot be read, these
\* are the 23 other files.
C2_ExactlyValidAndRead ==
    \A c \in CallsOf("processImages") :
        Returned(c) =>
            LET fs == call[c].files
                out == call[c].returned
            IN  /\ Len(out) = Cardinality(Kept(fs))
                /\ \A k \in Kept(fs) :
                       out[Cardinality({j \in Kept(fs) : j <= k})] =
                           ProcessedImage(fs[k], DataUrl(fs[k]))
                /\ fs = Batch(25, 3, 7) =>
                       /\ Len(out) = 23
                       /\ \A m \in 1..23 :
                              out[m].name = IF m <= 2 THEN m - 1
                                            ELSE IF m <= 5 THEN m
                                            ELSE m + 1

\* processImages returned for the batch of 25 with the 3rd file invalid and the
\* 7th unreadable.
C2_Witness ==
    /\ call[1].op = "processImages" /\ Returned(1)
    /\ call[1].files = Batch(25, 3, 7)
    /\ Len(call[1].returned) = 23

\* C3: uploadImages keeps one entry per file handled so far, entry k carrying
\* the name of input file k, and returns exactly one entry per input file.
C3_OneEntryPerFile ==
    \A c \in CallsOf("uploadImages") :
        LET fs == call[c].files
            acc == call[c].results
        IN  /\ Len(acc) <= Len(fs)
            /\ \A k \in 1..Len(acc) : acc[k].filename = fs[k].name
            /\ call[c].pc = "done" =>
                   /\ call[c].status = "fulfilled"
                   /\ call[c].returned = acc
                   /\ Len(acc) = Len(fs)

\* uploadImages returned for a batch of several files one of which could not be
\* read.
C3_Witness ==
    /\ call[1].op = "uploadImages" /\ Returned(1)
    /\ Len(call[1].returned) = 4 /\ Len(call[1].files) = 4
    /\ ~call[1].files[2].readable

\* C4: uploadImages returns, at position k, the Failure variant with the name
\* of file k and the reader's message if the read of file k failed and the
\* Success variant with its data URL, name and size otherwise; a read was
\* started for every file, whatever failed before it.
C4_FailureIffReadFails ==
    \A c \in CallsOf("uploadImages") :
        call[c].pc = "done" =>
            LET fs == call[c].files
                out == call[c].returned
            IN  /\ call[c].status = "fulfilled"
                /\ Len(out) = Len(fs)
                /\ \A k \in 1..Len(fs) :
                       out[k] = IF fs[k].readable
                                THEN UploadSuccess(fs[k], DataUrl(fs[k]))
                                ELSE UploadFailure(fs[k], ConvertErrorMessage)
                /\ \A k \in 1..Len(fs) : out[k].success = fs[k].readable
                /\ call[c].reads = [k \in 1..Len(fs) |-> k - 1]

\* uploadImages returned a Failure followed by a Success.
C4_Witness ==
    /\ call[1].op = "uploadImages" /\ Returned(1)
    /\ Len(call[1].returned) = 3
    /\ ~call[1].returned[2].success
    /\ call[1].returned[3].success

\* The indices processImages wrote a console line for: a file that failed
\* validation (warn) or whose preview failed (error).
Diagnosed(c) == {call[c].console[m][2] : m \in 1..Len(call[c].console)}

\* C5: a call of processImages is never rejected; after a file fails
\* validation or its preview fails the loop is past that file (or at the yield
\* that follows it), and the call returns what it accumulated.
C5_FailuresAreSwallowed ==
    \A c \in CallsOf("processImages") :
        /\ call[c].status # "rejected"
        /\ \A j \in Diagnosed(c) :
               \/ call[c].i > j
               \/ call[c].i = j /\ call[c].pc = "yield"
        /\ call[c].pc = "done" =>
               /\ call[c].status = "fulfilled"
               /\ call[c].i = Len(call[c].files)
               /\ call[c].returned = call[c].processedImages

\* processImages returned records although one file was invalid and the read
\* of another failed.
C5_Witness ==
    /\ call[1].op = "processImages" /\ Returned(1)
    /\ \E m, k \in 1..Len(call[1].console) :
           call[1].console[m][1] = "warn" /\ call[1].console[k][1] = "error"
    /\ Len(call[1].returned) >= 2

\* C6: under fair scheduling of read completions and timers, a pending call
\* of processImages or uploadImages eventually returns, having started the work
\* of every input index once, in order.
C6_BatchCompletes ==
    \A c \in Calls :
        (call[c].status = "pending"
             /\ call[c].op \in {"processImages", "uploadImages"})
        ~> (/\ Returned(c)
            /\ call[c].started = [m \in 1..Len(call[c].files) |-> m - 1])

\* A batch of 25 files has returned.
C6_Witness ==
    /\ Returned(1)
    /\ call[1].op \in {"processImages", "uploadImages"}
    /\ Len(call[1].files) = 25
    /\ Len(call[1].started) = 25

\* C7: processImages yields after the file at index i exactly when
\* i mod 10 = 9: the indices yielded after are 9, 19, ... one per ten files
\* completed, whatever became of the files; the call is suspended at the yield
\* only with its 0 ms timer pending; a returned batch of n files has yielded
\* n div 10 times, and the batch of 25 valid, readable files returns 25 records
\* after yielding at indices 9 and 19.
C7_YieldEveryTenth ==
    \A c \in CallsOf("processImages") :
        LET ys == call[c].yields
            mine == {t \in timers : t.call = c}
        IN  /\ ys = [m \in 1..Len(ys) |-> 10 * m - 1]
            /\ Len(ys) = Len(call[c].completed) \div 10
            /\ call[c].pc = "yield" <=> mine # {}
            /\ \A t \in mine : t.ms = 0 /\ t.index = call[c].i /\ t.index % 10 = 9
            /\ call[c].pc = "yield" => ys[Len(ys)] = call[c].i
            /\ Returned(c) => Len(ys) = Len(call[c].files) \div 10
            /\ (Returned(c) /\ call[c].files = Batch(25, 0, 0)) =>
                   Len(call[c].returned) = 25 /\ ys = <<9, 19>>

\* processImages returned all 25 records of a batch of valid, readable files
\* after two yields.
C7_Witness ==
    /\ call[1].op = "processImages" /\ Returned(1)
    /\ call[1].files = Batch(25, 0, 0)
    /\ Len(call[1].returned) = 25
    /\ call[1].yields = <<9, 19>>

\* C8: the value processImages returns is the value of the same loop without
\* the periodic yield, however many yields there were and whatever host jobs
\* ran in between.
C8_YieldKeepsResult ==
    \A c \in CallsOf("processImages") :
        Returned(c) =>
            call[c].returned = processNoYield(call[c].files, 0, <<>>)

\* processImages returned part of a batch after yielding twice, a host job
\* having run meanwhile.
C8_Witness ==
    /\ call[1].op = "processImages" /\ Returned(1)
    /\ Len(call[1].yields) = 2
    /\ hostTasks >= 1
    /\ Len(call[1].returned) = Len(call[1].files) - 2

\* The reads and timers of a call that are in flight.
ReadsInFlight(c) == {r \in readers : r.call = c}

TimersInFlight(c) == {t \in timers : t.call = c}

\* C9: a call of processImages or uploadImages has at most one read or timer
\* in flight, and it is for the file the loop is at; the work of the indices
\* starts in order, and that of an index only when the work of every index
\* before it has completed.
C9_StrictlySequential ==
    \A c \in CallsOf("processImages") \cup CallsOf("uploadImages") :
        LET st == call[c].started
            co == call[c].completed
        IN  /\ Cardinality(ReadsInFlight(c)) <= 1
            /\ Cardinality(TimersInFlight(c)) <= 1
            /\ Cardinality(ReadsInFlight(c)) + Cardinality(TimersInFlight(c)) <= 1
            /\ \A x \in ReadsInFlight(c) \cup TimersInFlight(c) :
                   x.index = call[c].i
            /\ st = [m \in 1..Len(st) |-> m - 1]
            /\ co = [m \in 1..Len(co) |-> m - 1]
            /\ Len(co) <= Len(st) /\ Len(st) <= Len(co) + 1
            /\ \A r \in ReadsInFlight(c) :
                   Len(st) = r.index + 1 /\ Len(co) = r.index

\* A read is in flight for a file that is not the first of its batch.
C9_Witness ==
    /\ call[1].op \in {"processImages", "uploadImages"}
    /\ \E r \in ReadsInFlight(1) : r.index = 11
    /\ Len(call[1].completed) = 11

\* The elements of an array.
Elements(seq) == {seq[k] : k \in 1..Len(seq)}

\* C10: validateImage returns valid exactly when the file's type is one of the
\* allowed types and its size is not above the maximum (a size equal to the
\* maximum passes), and valid exactly when errors is empty; the constructor's
\* maximum is 5,242,880 bytes and its types are the five image types.
C10_ValidIffTypeAndSize ==
    /\ DefaultMaxFileSize = 5242880
    /\ DefaultAllowedTypes =
           <<"image/jpeg", "image/jpg", "image/png", "image/gif", "image/webp">>
    /\ Len(validation) = 1 =>
           LET v == validation[1]
               typeOk == v.file.type \in Elements(v.allowedTypes)
               sizeOk == v.file.size <= v.maxFileSize
           IN  /\ v.result.valid <=> (typeOk /\ sizeOk)
               /\ v.result.valid <=> (Len(v.result.errors) = 0)
               /\ v.file.size = v.maxFileSize => (v.result.valid <=> typeOk)
               /\ (v.maxFileSize = DefaultMaxFileSize
                       /\ v.allowedTypes = DefaultAllowedTypes) =>
                      (v.result.valid <=>
                           /\ v.file.size <= 5242880
                           /\ v.file.type \in {"image/jpeg", "image/jpg",
                                  "image/png", "image/gif", "image/webp"})

\* Under the default policy a file of an allowed type and of exactly the
\* maximum size was validated and found valid.
C10_Witness ==
    /\ Len(validation) = 1
    /\ validation[1].maxFileSize = 5242880
    /\ validation[1].file.size = 5242880
    /\ validation[1].file.type = "image/webp"
    /\ validation[1].result.valid

\* C11: the two checks of validateImage are independent: errors is the type
\* error, if the type is not allowed, followed by the size error, if the size
\* is above the maximum; so it has as many entries as checks are violated, two
\* for a file that violates both, and each error is the same whether or not
\* the other check fails.
C11_ChecksAreIndependent ==
    Len(validation) = 1 =>
        LET v == validation[1]
            typeBad == v.file.type \notin Elements(v.allowedTypes)
            sizeBad == v.file.size > v.maxFileSize
            typeErrors ==
                IF typeBad
                THEN <<<<"Invalid file type", v.file.type, v.allowedTypes>>>>
                ELSE <<>>
            sizeErrors ==
                IF sizeBad
                THEN <<<<"File too large", ToFixed2(v.file.size),
                         ToFixed2(v.maxFileSize)>>>>
                ELSE <<>>
        IN  /\ v.result.errors = typeErrors \o sizeErrors
            /\ Len(v.result.errors) =
                   (IF typeBad THEN 1 ELSE 0) + (IF sizeBad THEN 1 ELSE 0)
            /\ (typeBad /\ sizeBad) =>
                   /\ Len(v.result.errors) = 2
                   /\ v.result.errors[1][1] = "Invalid file type"
                   /\ v.result.errors[2][1] = "File too large"

\* A file of a type that is not allowed and of a size above the maximum was
\* validated: two errors.
C11_Witness ==
    /\ Len(validation) = 1
    /\ validation[1].file.type = OtherType
    /\ validation[1].file.size = DefaultMaxFileSize + 1
    /\ validation[1].maxFileSize = DefaultMaxFileSize
    /\ validation[1].allowedTypes = DefaultAllowedTypes
    /\ Len(validation[1].result.errors) = 2

\* C12: a direct call of uploadImage is rejected only if the read fails: when
\* the read succeeds it is fulfilled with the Success result of the file (its
\* data URL, name and size); when the read fails it is rejected with the
\* reader's error, not fulfilled with a Failure variant.  Only uploadImages
\* turns the failure into a Failure variant, and is itself never rejected.
C12_SingleUploadPropagates ==
    /\ \A c \in CallsOf("uploadImage") :
           LET f == call[c].files[1]
           IN  /\ call[c].status = "rejected" => ~f.readable
               /\ call[c].pc = "done" =>
                      IF f.readable
                      THEN /\ call[c].status = "fulfilled"
                           /\ call[c].returned = UploadSuccess(f, DataUrl(f))
                           /\ call[c].returned.filename = f.name
                           /\ call[c].returned.size = f.size
                      ELSE /\ call[c].status = "rejected"
                           /\ call[c].returned = ConvertErrorMessage
    /\ \A c \in CallsOf("uploadImages") :
           /\ call[c].status # "rejected"
           /\ \A k \in 1..Len(call[c].results) :
                  ~call[c].files[k].readable =>
                      call[c].results[k] =
                          UploadFailure(call[c].files[k], ConvertErrorMessage)

\* A direct call of uploadImage was rejected because the read failed.
C12_Witness ==
    /\ call[1].op = "uploadImage"
    /\ call[1].pc = "done"
    /\ call[1].status = "rejected"
    /\ ~call[1].files[1].readable

\* C13: the uploads validate nothing.  Whatever policy the handler has while
\* the upload runs, a direct call of uploadImage is fulfilled exactly when the
\* read of its file succeeds, and entry k of uploadImages is a Success exactly
\* when the read of file k succeeds: a readable file that the policy rejects
\* (its type or its size) is reported as Success.
C13_UploadValidatesNothing ==
    /\ \A c \in CallsOf("uploadImage") :
           call[c].pc = "done" =>
               LET f == call[c].files[1]
               IN  /\ (call[c].status = "fulfilled") = f.readable
                   /\ (f.readable /\ ~validateImage(f).valid) =>
                          call[c].returned = UploadSuccess(f, DataUrl(f))
    /\ \A c \in CallsOf("uploadImages") :
           \A k \in 1..Len(call[c].results) :
               LET f == call[c].files[k]
               IN  /\ call[c].results[k].success = f.readable
                   /\ (f.readable /\ ~validateImage(f).valid) =>
                          call[c].results[k] = UploadSuccess(f, DataUrl(f))

\* uploadImages returned a Success for a readable file of a type that is not
\* allowed and of a size above the maximum, under the default policy.
C13_Witness ==
    /\ call[1].op = "uploadImages" /\ Returned(1)
    /\ policy = <<DefaultMaxFileSize, DefaultAllowedTypes>>
    /\ \E k \in 1..Len(call[1].files) :
           /\ call[1].files[k].type = OtherType
           /\ call[1].files[k].size > DefaultMaxFileSize
           /\ call[1].files[k].readable
           /\ call[1].returned[k].success

\* C14: the promise of a call of createPreview is pending until its reader
\* signals and is settled exactly once from the first signal on, by that first
\* signal: fulfilled with the data URL of the file if it was load, rejected
\* with the error if it was error; no later signal settles it again or changes
\* what it settled with.
C14_SettledExactlyOnce ==
    \A c \in CallsOf("createPreview") :
        LET f == call[c].files[1]
            sig == call[c].signals
        IN  /\ Len(call[c].settlements) <= 1
            /\ Len(call[c].settlements) = (IF Len(sig) = 0 THEN 0 ELSE 1)
            /\ Len(sig) = 0 => call[c].status = "pending"
            /\ (Len(sig) > 0 /\ sig[1] = "load") =>
                   /\ call[c].status = "fulfilled"
                   /\ call[c].settlements = <<"fulfilled">>
                   /\ call[c].returned = DataUrl(f)
            /\ (Len(sig) > 0 /\ sig[1] = "error") =>
                   /\ call[c].status = "rejected"
                   /\ call[c].settlements = <<"rejected">>
                   /\ call[c].returned = PreviewErrorMessage

\* The reader of a call of createPreview signalled load and then error, and
\* load again: the promise stays fulfilled.
C14_Witness ==
    /\ call[1].op = "createPreview"
    /\ call[1].signals = <<"load", "error", "load">>
    /\ call[1].status = "fulfilled"

\* The indices whose read failed: those of the unreadable files among the
\* files a read was started for and is no longer in flight.
FailedReads(c) ==
    {j \in Elements(call[c].reads) :
        /\ ~call[c].files[j + 1].readable
        /\ \A r \in ReadsInFlight(c) : r.index # j}

\* C15: there are no retries.  In a call of processImages or uploadImages the
\* indices reads are started for are strictly increasing, so a read is started
\* at most once for an input position, and every read started after the read
\* of file j failed is for a later index.
C15_NoRetries ==
    \A c \in CallsOf("processImages") \cup CallsOf("uploadImages") :
        LET rs == call[c].reads
        IN  /\ \A m, k \in 1..Len(rs) : m < k => rs[m] < rs[k]
            /\ \A j \in Elements(rs) : Cardinality({m \in 1..Len(rs) : rs[m] = j}) = 1
            /\ \A j \in FailedReads(c) :
                   \A m \in 1..Len(rs) :
                       (\E k \in 1..(m - 1) : rs[k] = j) => rs[m] > j
            /\ Len(rs) <= Len(call[c].files)

\* The read of a file failed and a read was started for a later file.
C15_Witness ==
    /\ call[1].op \in {"processImages", "uploadImages"}
    /\ \E j \in FailedReads(1) :
           /\ j >= 1
           /\ \E m \in 1..Len(call[1].reads) : call[1].reads[m] > j

\* s is an initial part of t.
IsPrefix(s, t) == Len(s) <= Len(t) /\ \A k \in 1..Len(s) : s[k] = t[k]

\* C16: batches do not touch each other.  With two calls of the shared handler
\* in progress at once, interleaved at their awaits in any way, the accumulator
\* of each call is at every moment an initial part of what the call returns
\* when run on its own on the same files, and is that value when the call
\* returns; every entry of a call carries the name of one of its own files.
C16_BatchesAreIndependent ==
    \A c \in Calls :
        /\ call[c].op = "processImages" =>
               LET alone == processNoYield(call[c].files, 0, <<>>)
               IN  /\ IsPrefix(call[c].processedImages, alone)
                   /\ \A m \in 1..Len(call[c].processedImages) :
                          call[c].processedImages[m].name[1] = c
                   /\ call[c].pc = "done" =>
                          Returned(c) /\ call[c].returned = alone
        /\ call[c].op = "uploadImages" =>
               LET alone == uploadAlone(call[c].files)
               IN  /\ IsPrefix(call[c].results, alone)
                   /\ \A m \in 1..Len(call[c].results) :
                          call[c].results[m].filename[1] = c
                   /\ call[c].pc = "done" =>
                          Returned(c) /\ call[c].returned = alone

\* processImages and uploadImages are both in progress, the first past its
\* periodic yield, each with entries accumulated.
C16_Witness ==
    /\ call[1].op = "processImages" /\ call[1].status = "pending"
    /\ call[2].op = "uploadImages" /\ call[2].status = "pending"
    /\ Len(call[1].yields) = 1
    /\ Len(call[1].processedImages) >= 2
    /\ Len(call[2].results) >= 2

C18_ReadOnlyAfterValidation ==
    \A c \in CallsOf("processImages") :
        LET fs == call[c].files
            rs == Elements(call[c].reads)
        IN  /\ \A j \in rs :
                   /\ validateImage(fs[j + 1]).valid
                   /\ j \in Elements(call[c].started)
            /\ \A r \in ReadsInFlight(c) :
                   /\ validateImage(ReaderFile(r)).valid
                   /\ r.index \in rs
            /\ \A k \in 1..Len(fs) :
                   ~validateImage(fs[k]).valid => (k - 1) \notin rs
            /\ \A m \in 1..Len(call[c].console) :
                   call[c].console[m][1] = "warn" =>
                       call[c].console[m][2] \notin rs

\* processImages is reading the file after one that failed validation and was
\* not read.
C18_Witness ==
    /\ call[1].op = "processImages"
    /\ \E r \in ReadsInFlight(1) :
           /\ r.index >= 2
           /\ ~validateImage(call[1].files[r.index]).valid
           /\ (r.index - 1) \notin Elements(call[1].reads)
           /\ (r.index - 2) \in Elements(call[1].reads)

====
